---- MODULE Spec2Model ----
(***************************************************************************)
(* The two bindgen input headers of wdk-sys, read the way the C            *)
(* preprocessor and the C compiler read them:                              *)
(*   - src/unnamed/part_000 (the main input header): a chain of            *)
(*     #if/#else/#endif groups around #include lines and the two           *)
(*     hand-written typedefs KGDTENTRY64 and KIDTENTRY64;                  *)
(*   - src/crates/wdk-sys/src/usb-input.h (the USB input header).          *)
(* A run fixes the macros defined on the command line, then processes the  *)
(* header one directive at a time.  `out` is the sequence of #include      *)
(* lines and typedefs that were in an active group, in the order they      *)
(* were met; `layout` holds, for every typedef met, the layout the         *)
(* compiler computes for it (x64 MSVC rules: natural alignment, bitfields  *)
(* packed from bit 0 into storage units of their declared type).           *)
(***************************************************************************)
EXTENDS Integers, Sequences, FiniteSets

VARIABLES
    file,       \* which input header is processed: "main" or "usb"
    flags,      \* the macros, among those the headers test, that are defined
    extraDefs,  \* other macros defined on the command line (never tested)
    pc,         \* index of the next directive of the header
    stack,      \* the open conditional groups, innermost last
    out,        \* the #include lines and typedefs emitted so far, in order
    evaluated,  \* the macros whose definedness has been tested so far
    layout,     \* typedef name -> the layout computed for it
    status      \* "running" | "done"

vars == <<file, flags, extraDefs, pc, stack, out, evaluated, layout, status>>

\* Number of command-line macros, besides the three the headers test, that a
\* build may define (a version or feature macro no directive looks at).
MaxOtherFlags == 1

UMDF == "UMDF_VERSION_MAJOR"
KMDF == "KMDF_VERSION_MAJOR"
KERNEL_MODE == "_KERNEL_MODE"
Flags == {UMDF, KMDF, KERNEL_MODE}

----------------------------------------------------------------------------
(* The directives of the two headers.                                      *)

Inc(l, n) == [op |-> "include", line |-> l, name |-> n, cond |-> <<>>]
Typ(l, n) == [op |-> "typedef", line |-> l, name |-> n, cond |-> <<>>]
If(l, c) == [op |-> "if", line |-> l, name |-> "", cond |-> c]
Else(l) == [op |-> "else", line |-> l, name |-> "", cond |-> <<>>]
Endif(l) == [op |-> "endif", line |-> l, name |-> "", cond |-> <<>>]

MainHeaderLines ==
    << If(4, <<UMDF>>),
       Inc(6, "windows.h"),
       Else(8),
       Inc(10, "ntifs.h"),
       Inc(11, "ntddk.h"),
       Inc(16, "hidclass.h"),
       Inc(19, "hidport.h"),
       Inc(20, "hidsdi.h"),
       Inc(22, "kbdmou.h"),
       Inc(23, "ntdd8042.h"),
       Inc(24, "vhf.h"),
       Inc(27, "usbspec.h"),
       Inc(29, "usb.h"),
       Inc(30, "usbbusif.h"),
       Inc(31, "usbioctl.h"),
       Inc(32, "usbdlib.h"),
       Inc(34, "usbfnbase.h"),
       Inc(35, "usbfnattach.h"),
       Inc(36, "usbfnioctl.h"),
       Inc(38, "wdf.h"),
       Inc(39, "wdfusb.h"),
       If(41, <<KERNEL_MODE>>),
       Inc(43, "ntintsafe.h"),
       Inc(44, "ntstrsafe.h"),
       Inc(45, "pepfx.h"),
       Inc(48, "ntddstor.h"),
       Inc(51, "ude/1.0/UdeCx.h"),
       Endif(52),
       Inc(55, "spb.h"),
       Inc(56, "spb/1.1/spbcx.h"),
       Inc(57, "reshub.h"),
       Inc(58, "pwmutil.h"),
       Inc(61, "gpio.h"),
       Inc(62, "gpioclx.h"),
       Inc(63, "ntddpar.h"),
       Inc(64, "ntddser.h"),
       Inc(65, "parallel.h"),
       Typ(68, "KGDTENTRY64"),
       Typ(103, "KIDTENTRY64"),
       Endif(120),
       If(122, <<KMDF, UMDF>>),
       Inc(124, "wdf.h"),
       Endif(126),
       Inc(129, "TraceLoggingProvider.h") >>

\* The main header with its USB block (lines 27-36) moved in front of its HID
\* block (lines 16-24).
MainHeaderUsbFirst ==
    [i \in 1..Len(MainHeaderLines) |->
        IF i \in 6..13 THEN MainHeaderLines[i + 6]
        ELSE IF i \in 14..19 THEN MainHeaderLines[i - 8]
        ELSE MainHeaderLines[i]]

MainHeader == MainHeaderLines

UsbHeader ==
    << Inc(4, "ntddk.h"),
       Inc(6, "usbspec.h"),
       Inc(8, "usb.h"),
       Inc(9, "usbbusif.h"),
       Inc(10, "usbioctl.h"),
       Inc(11, "usbdlib.h"),
       Inc(13, "usbfnbase.h"),
       Inc(14, "usbfnattach.h"),
       Inc(15, "usbfnioctl.h"),
       Inc(17, "wdf.h"),
       Inc(18, "wdfusb.h"),
       If(20, <<KERNEL_MODE>>),
       Inc(21, "ude/1.0/UdeCx.h"),
       Endif(22) >>

Program(f) == IF f = "main" THEN MainHeader ELSE UsbHeader

----------------------------------------------------------------------------
(* The C types of the two typedefs.  A type is a scalar of `size` bytes,   *)
(* or a struct or union of members; a member has a name ("" when it is     *)
(* anonymous), a type and, for a bitfield, its width in bits (0 otherwise).*)

CharBytes == 1
ShortBytes == 2
LongBytes == 4
Int64Bytes == 8
ByteBits == 8

Scalar(n) == [kind |-> "scalar", size |-> n, members |-> <<>>]
Struct(ms) == [kind |-> "struct", size |-> 0, members |-> ms]
Union(ms) == [kind |-> "union", size |-> 0, members |-> ms]
M(n, t) == [name |-> n, type |-> t, bits |-> 0]
B(n, t, w) == [name |-> n, type |-> t, bits |-> w]

UChar == Scalar(CharBytes)
UShort == Scalar(ShortBytes)
ULong == Scalar(LongBytes)
UInt64 == Scalar(Int64Bytes)

GdtBytes ==
    Struct(<< M("BaseMiddle", UChar),
              M("Flags1", UChar),
              M("Flags2", UChar),
              M("BaseHigh", UChar) >>)

GdtBits ==
    Struct(<< B("BaseMiddle", ULong, 8),
              B("Type", ULong, 5),
              B("Dpl", ULong, 2),
              B("Present", ULong, 1),
              B("LimitHigh", ULong, 4),
              B("System", ULong, 1),
              B("LongMode", ULong, 1),
              B("DefaultBig", ULong, 1),
              B("Granularity", ULong, 1),
              B("BaseHigh", ULong, 8) >>)

\* The 8-byte descriptor of 32-bit x86: KGDTENTRY64 without its upper half.
KGDTENTRY64_Short ==
    Union(<< M("", Struct(<< M("LimitLow", UShort),
                             M("BaseLow", UShort),
                             M("", Union(<< M("Bytes", GdtBytes),
                                            M("Bits", GdtBits) >>)) >>)),
             M("Alignment", UInt64) >>)

KGDTENTRY64_Type ==
    Union(<< M("", Struct(<< M("LimitLow", UShort),
                             M("BaseLow", UShort),
                             M("", Union(<< M("Bytes", GdtBytes),
                                            M("Bits", GdtBits) >>)),
                             M("BaseUpper", ULong),
                             M("MustBeZero", ULong) >>)),
             M("Alignment", UInt64) >>)

\* KIDTENTRY64 with its last field, Reserved1, left out.
KIDTENTRY64_NoReserved ==
    Union(<< M("", Struct(<< M("OffsetLow", UShort),
                             M("Selector", UShort),
                             B("IstIndex", UShort, 3),
                             B("Reserved0", UShort, 5),
                             B("Type", UShort, 5),
                             B("Dpl", UShort, 2),
                             B("Present", UShort, 1),
                             M("OffsetMiddle", UShort),
                             M("OffsetHigh", ULong) >>)),
             M("Alignment", UInt64) >>)

KIDTENTRY64_Type ==
    Union(<< M("", Struct(<< M("OffsetLow", UShort),
                             M("Selector", UShort),
                             B("IstIndex", UShort, 3),
                             B("Reserved0", UShort, 5),
                             B("Type", UShort, 5),
                             B("Dpl", UShort, 2),
                             B("Present", UShort, 1),
                             M("OffsetMiddle", UShort),
                             M("OffsetHigh", ULong),
                             M("Reserved1", ULong) >>)),
             M("Alignment", UInt64) >>)

TypeDef(n) == IF n = "KGDTENTRY64" THEN KGDTENTRY64_Type ELSE KIDTENTRY64_Type

----------------------------------------------------------------------------
(* The layout the compiler gives a type.  Offsets and widths are in bits.  *)

Max(a, b) == IF a >= b THEN a ELSE b

AlignUp(x, a) == ((x + a - 1) \div a) * a

\* A bitfield that exactly fills the rest of its unit is sent to a new one.
BitfieldFitsStrict(st, m) ==
    /\ st.unit = m.type.size
    /\ st.cursor + m.bits < st.end

\* A bitfield joins the open storage unit when the unit has its type's size
\* and the field's bits still fit in it.
BitfieldFits(st, m) ==
    /\ st.unit = m.type.size
    /\ st.cursor + m.bits <= st.end

\* The leaf fields `fs` of a member named `name` placed at bit `start`; a
\* field's `unit` is the width of the storage unit it lives in.
Rebase(fs, start, name) ==
    [k \in 1..Len(fs) |->
        [path |-> IF name = "" THEN fs[k].path ELSE <<name>> \o fs[k].path,
         off |-> fs[k].off + start,
         width |-> fs[k].width,
         unit |-> fs[k].unit]]

RECURSIVE AlignOf(_), MaxAlign(_, _), SizeOf(_), MaxSize(_, _)
RECURSIVE Fields(_), UnionFields(_, _), Walk(_, _, _)

MaxAlign(ms, i) ==
    IF i > Len(ms) THEN 1 ELSE Max(AlignOf(ms[i].type), MaxAlign(ms, i + 1))

AlignOf(t) == IF t.kind = "scalar" THEN t.size ELSE MaxAlign(t.members, 1)

MaxSize(ms, i) ==
    IF i > Len(ms) THEN 0 ELSE Max(SizeOf(ms[i].type), MaxSize(ms, i + 1))

\* The walk over a struct's members: `end` is the first bit after the
\* storage allocated so far, `unit` the byte size of the open bitfield
\* storage unit (0 when none is open) and `cursor` its next free bit.
Walk(ms, i, st) ==
    IF i > Len(ms) THEN st
    ELSE LET m == ms[i] IN
         IF m.bits > 0
         THEN LET ubits == m.type.size * ByteBits
                  fits == BitfieldFits(st, m)
                  start == IF fits THEN st.cursor ELSE AlignUp(st.end, ubits)
              IN  Walk(ms, i + 1,
                       [unit |-> m.type.size,
                        cursor |-> start + m.bits,
                        end |-> IF fits THEN st.end ELSE start + ubits,
                        placed |-> Append(st.placed,
                                          [path |-> <<m.name>>,
                                           off |-> start,
                                           width |-> m.bits,
                                           unit |-> ubits])])
         ELSE LET start == AlignUp(st.end, AlignOf(m.type) * ByteBits)
                  stop == start + SizeOf(m.type) * ByteBits
              IN  Walk(ms, i + 1,
                       [unit |-> 0,
                        cursor |-> stop,
                        end |-> stop,
                        placed |-> st.placed
                                   \o Rebase(Fields(m.type), start, m.name)])

WalkStart == [unit |-> 0, cursor |-> 0, end |-> 0, placed |-> <<>>]

SizeOf(t) ==
    IF t.kind = "scalar" THEN t.size
    ELSE IF t.kind = "struct"
    THEN AlignUp(Walk(t.members, 1, WalkStart).end, AlignOf(t) * ByteBits)
            \div ByteBits
    ELSE AlignUp(MaxSize(t.members, 1), AlignOf(t))

UnionFields(ms, i) ==
    IF i > Len(ms) THEN <<>>
    ELSE Rebase(Fields(ms[i].type), 0, ms[i].name) \o UnionFields(ms, i + 1)

Fields(t) ==
    IF t.kind = "scalar"
    THEN << [path |-> <<>>, off |-> 0, width |-> t.size * ByteBits,
             unit |-> t.size * ByteBits] >>
    ELSE IF t.kind = "struct" THEN Walk(t.members, 1, WalkStart).placed
    ELSE UnionFields(t.members, 1)

\* What the compiler knows of a typedef'd union once it is declared: its
\* size and alignment (bytes), the size of each of its views (its direct
\* members, in order) and the place of every leaf field.
LayoutOf(t) ==
    [size |-> SizeOf(t),
     align |-> AlignOf(t),
     views |-> [k \in 1..Len(t.members) |-> SizeOf(t.members[k].type)],
     fields |-> Fields(t)]

----------------------------------------------------------------------------
(* The preprocessor.  A frame of `stack` is one open #if group: `taken`    *)
(* says whether the lines of its current branch are active, `outer`        *)
(* whether the enclosing group is, and `done` whether one of its branches  *)
(* has been taken already.                                                 *)

Active(stk) == IF stk = <<>> THEN TRUE ELSE stk[Len(stk)].taken

\* defined(c[1]) || ... || defined(c[n])
CondValue(c, fl) == \E i \in 1..Len(c) : c[i] \in fl

\* The macros the condition looks at: || stops at the first defined one.
Tested(c, fl) ==
    {c[i] : i \in {j \in 1..Len(c) : \A k \in 1..(j - 1) : c[k] \notin fl}}

\* A nested condition evaluated although the enclosing group is skipped.
IfTakenEager(act, c, fl) == CondValue(c, fl)

\* The branch of an #if is active when the enclosing group is and the
\* condition holds; in a skipped group the condition is not evaluated.
IfTaken(act, c, fl) == act /\ CondValue(c, fl)

\* An #else that forgets whether the #if branch was taken.
ElseTakenAlways(fr) == fr.outer

\* The #else branch is active when the enclosing group is and no earlier
\* branch of the group was taken.
ElseTaken(fr) == fr.outer /\ ~fr.done

Running == status = "running" /\ pc <= Len(Program(file))

Cur == Program(file)[pc]

Init ==
    /\ file \in {"main", "usb"}
    /\ flags \in SUBSET Flags
    /\ extraDefs \in SUBSET (1..MaxOtherFlags)
    /\ pc = 1
    /\ stack = <<>>
    /\ out = <<>>
    /\ evaluated = {}
    /\ layout = [n \in {} |-> 0]
    /\ status = "running"

\* #if / #ifdef
StepIf ==
    /\ Running
    /\ Cur.op = "if"
    /\ LET act == Active(stack)
           t == IfTaken(act, Cur.cond, flags)
       IN  /\ stack' = Append(stack, [taken |-> t, outer |-> act, done |-> t \/ ~act])
           /\ evaluated' = IF act THEN evaluated \cup Tested(Cur.cond, flags)
                           ELSE evaluated
    /\ pc' = pc + 1
    /\ UNCHANGED <<file, flags, extraDefs, out, layout, status>>

\* #else
StepElse ==
    /\ Running
    /\ Cur.op = "else"
    /\ stack # <<>>
    /\ LET fr == stack[Len(stack)]
           t == ElseTaken(fr)
       IN  stack' = [stack EXCEPT ![Len(stack)] =
                        [taken |-> t, outer |-> fr.outer, done |-> TRUE]]
    /\ pc' = pc + 1
    /\ UNCHANGED <<file, flags, extraDefs, out, evaluated, layout, status>>

\* #endif
StepEndif ==
    /\ Running
    /\ Cur.op = "endif"
    /\ stack # <<>>
    /\ stack' = SubSeq(stack, 1, Len(stack) - 1)
    /\ pc' = pc + 1
    /\ UNCHANGED <<file, flags, extraDefs, out, evaluated, layout, status>>

\* #include in an active group: the header's declarations join the surface.
StepInclude ==
    /\ Running
    /\ Cur.op = "include"
    /\ Active(stack)
    /\ out' = Append(out, [name |-> Cur.name, line |-> Cur.line])
    /\ pc' = pc + 1
    /\ UNCHANGED <<file, flags, extraDefs, stack, evaluated, layout, status>>

\* A typedef in an active group: the type is declared and laid out.
StepTypedef ==
    /\ Running
    /\ Cur.op = "typedef"
    /\ Active(stack)
    /\ out' = Append(out, [name |-> Cur.name, line |-> Cur.line])
    /\ layout' = [n \in DOMAIN layout \cup {Cur.name} |->
                     IF n = Cur.name THEN LayoutOf(TypeDef(n)) ELSE layout[n]]
    /\ pc' = pc + 1
    /\ UNCHANGED <<file, flags, extraDefs, stack, evaluated, status>>

\* An #include or a typedef in a skipped group.
StepSkip ==
    /\ Running
    /\ Cur.op \in {"include", "typedef"}
    /\ ~Active(stack)
    /\ pc' = pc + 1
    /\ UNCHANGED <<file, flags, extraDefs, stack, out, evaluated, layout, status>>

\* The end of the header: the surface is complete.
Finish ==
    /\ status = "running"
    /\ pc > Len(Program(file))
    /\ status' = "done"
    /\ UNCHANGED <<file, flags, extraDefs, pc, stack, out, evaluated, layout>>

Next ==
    \/ StepIf
    \/ StepElse
    \/ StepEndif
    \/ StepInclude
    \/ StepTypedef
    \/ StepSkip
    \/ Finish

Spec == Init /\ [][Next]_vars

----------------------------------------------------------------------------
(* Reading the surface.                                                    *)

\* Some directive can be processed, or the end of the header is reached: the
\* run is not stuck on an #else or #endif that closes no group.
CanStep ==
    /\ status = "running"
    /\ pc <= Len(Program(file)) =>
          (Cur.op \in {"else", "endif"} => stack # <<>>)

Done == status = "done"

Emitted == {out[i].name : i \in 1..Len(out)}

EmittedLines == {out[i].line : i \in 1..Len(out)}

Has(n) == n \in Emitted

\* Place of the first occurrence of n in the surface (0 when absent).
FirstPos(n) ==
    IF Has(n) THEN CHOOSE i \in 1..Len(out) :
                       out[i].name = n /\ \A j \in 1..(i - 1) : out[j].name # n
    ELSE 0

TypeOK ==
    /\ file \in {"main", "usb"}
    /\ flags \subseteq Flags
    /\ pc \in 1..(Len(Program(file)) + 1)
    /\ status \in {"running", "done"}
    /\ Done => stack = <<>>

----------------------------------------------------------------------------
(* The layout types.                                                       *)

LayoutTypes == {"KGDTENTRY64", "KIDTENTRY64"}

Declared(n) == n \in DOMAIN layout

\* Byte size of the structured view (the anonymous struct, first member)
\* and of the raw-integer view (Alignment, second member) of a declared type.
StructuredBytes(n) == layout[n].views[1]
RawBytes(n) == layout[n].views[2]

\* The leaf field of a declared type with the given path of member names.
Field(n, path) ==
    LET fs == layout[n].fields
    IN  fs[CHOOSE k \in 1..Len(fs) : fs[k].path = path]

\* First bit after a field.
FieldEnd(f) == f.off + f.width

GdtInner == FieldEnd(Field("KGDTENTRY64", <<"BaseLow">>))

GdtBit(name) == Field("KGDTENTRY64", <<"Bits", name>>)
GdtByte(name) == Field("KGDTENTRY64", <<"Bytes", name>>)
Idt(name) == Field("KIDTENTRY64", <<name>>)

\* No field crosses a boundary of its storage unit.
NoStraddle(n) ==
    \A k \in 1..Len(layout[n].fields) :
        LET f == layout[n].fields[k]
        IN  f.off \div f.unit = (FieldEnd(f) - 1) \div f.unit

\* C10: in KGDTENTRY64 the Bits view is 32 bits wide like the 4-byte Bytes
\* view and shares its byte boundaries: BaseMiddle is bits 0-7 of the inner
\* union (Bytes.BaseMiddle), Type/Dpl/Present fill bits 8-15 (Bytes.Flags1),
\* LimitHigh/System/LongMode/DefaultBig/Granularity fill bits 16-23
\* (Bytes.Flags2), BaseHigh is bits 24-31 (Bytes.BaseHigh); in KIDTENTRY64
\* IstIndex/Reserved0/Type/Dpl/Present fill exactly one 16-bit unit; no
\* bitfield straddles or spills past its storage unit.
C10_BitfieldsTile ==
    /\ Declared("KGDTENTRY64") =>
          /\ GdtBit("BaseMiddle").off = GdtInner
          /\ FieldEnd(GdtBit("BaseHigh")) = GdtInner + 32
          /\ FieldEnd(GdtByte("BaseHigh")) = GdtInner + 4 * 8
          /\ GdtBit("BaseMiddle").off = GdtByte("BaseMiddle").off
          /\ FieldEnd(GdtBit("BaseMiddle")) = GdtInner + 8
          /\ FieldEnd(GdtBit("BaseMiddle")) = FieldEnd(GdtByte("BaseMiddle"))
          /\ GdtBit("Type").off = GdtByte("Flags1").off
          /\ GdtBit("Dpl").off = FieldEnd(GdtBit("Type"))
          /\ GdtBit("Present").off = FieldEnd(GdtBit("Dpl"))
          /\ FieldEnd(GdtBit("Present")) = FieldEnd(GdtByte("Flags1"))
          /\ FieldEnd(GdtBit("Present")) = GdtInner + 16
          /\ GdtBit("LimitHigh").off = GdtByte("Flags2").off
          /\ GdtBit("System").off = FieldEnd(GdtBit("LimitHigh"))
          /\ GdtBit("LongMode").off = FieldEnd(GdtBit("System"))
          /\ GdtBit("DefaultBig").off = FieldEnd(GdtBit("LongMode"))
          /\ GdtBit("Granularity").off = FieldEnd(GdtBit("DefaultBig"))
          /\ FieldEnd(GdtBit("Granularity")) = FieldEnd(GdtByte("Flags2"))
          /\ FieldEnd(GdtBit("Granularity")) = GdtInner + 24
          /\ GdtBit("BaseHigh").off = GdtByte("BaseHigh").off
          /\ FieldEnd(GdtBit("BaseHigh")) = FieldEnd(GdtByte("BaseHigh"))
          /\ NoStraddle("KGDTENTRY64")
    /\ Declared("KIDTENTRY64") =>
          /\ Idt("IstIndex").off = FieldEnd(Idt("Selector"))
          /\ Idt("IstIndex").off % 16 = 0
          /\ Idt("Reserved0").off = FieldEnd(Idt("IstIndex"))
          /\ Idt("Type").off = FieldEnd(Idt("Reserved0"))
          /\ Idt("Dpl").off = FieldEnd(Idt("Type"))
          /\ Idt("Present").off = FieldEnd(Idt("Dpl"))
          /\ FieldEnd(Idt("Present")) = Idt("IstIndex").off + 16
          /\ Idt("OffsetMiddle").off = FieldEnd(Idt("Present"))
          /\ NoStraddle("KIDTENTRY64")

C10_Witness == Declared("KGDTENTRY64") /\ Declared("KIDTENTRY64") /\ Done

----------------------------------------------------------------------------
(* The groups of the surface.                                              *)

KernelPrimitives == {"ntifs.h", "ntddk.h"}
HidGroup == {"hidclass.h", "hidport.h", "hidsdi.h", "kbdmou.h", "ntdd8042.h", "vhf.h"}
UsbGroup == {"usbspec.h", "usb.h", "usbbusif.h", "usbioctl.h", "usbdlib.h",
             "usbfnbase.h", "usbfnattach.h", "usbfnioctl.h"}
SpbGroup == {"spb.h", "spb/1.1/spbcx.h"}
GpioGroup == {"gpio.h", "gpioclx.h"}
ParallelGroup == {"ntddpar.h", "ntddser.h", "parallel.h"}
KernelModeGated == {"ntintsafe.h", "ntstrsafe.h", "pepfx.h", "ntddstor.h",
                    "ude/1.0/UdeCx.h"}

\* The lines of the main header between its #else (8) and its #endif (120).
KernelBranchLines == 10..119

\* What the kernel branch of the main header holds outside its nested group.
KernelBranchCore ==
    KernelPrimitives \cup HidGroup \cup UsbGroup \cup SpbGroup \cup GpioGroup
        \cup ParallelGroup \cup LayoutTypes

UserBranchIn == Has("windows.h")
KernelBranchIn == KernelBranchCore \subseteq Emitted
KernelBranchTouched ==
    \/ EmittedLines \cap KernelBranchLines # {}
    \/ Emitted \cap (KernelBranchCore \cup KernelModeGated) # {}

\* C3: in the main header, for every combination of the three flags, exactly
\* one execution-mode branch is included, the user-mode branch (windows.h) or
\* the kernel branch, never both and never neither; with UMDF_VERSION_MAJOR
\* defined the output holds no kernel-branch header and neither
\* descriptor-table type name.
C3_ExactlyOneBranch ==
    file = "main" =>
        /\ ~(UserBranchIn /\ KernelBranchTouched)
        /\ Done => /\ UserBranchIn \/ KernelBranchIn
                   /\ UserBranchIn <=> UMDF \in flags
        /\ UMDF \in flags => ~KernelBranchTouched

C3_Witness ==
    /\ file = "main"
    /\ Done
    /\ flags = Flags
    /\ UserBranchIn

\* C4: in the main header, whenever the kernel branch is excluded
\* (UMDF_VERSION_MAJOR defined), every group gated by _KERNEL_MODE is excluded
\* whether or not _KERNEL_MODE is defined, and _KERNEL_MODE is not even
\* evaluated: it is evaluated only inside the included kernel branch.
C4_ShortCircuit ==
    file = "main" =>
        /\ UMDF \in flags => /\ Emitted \cap KernelModeGated = {}
                             /\ KERNEL_MODE \notin evaluated
        /\ KERNEL_MODE \in evaluated => /\ UMDF \notin flags
                                        /\ KernelPrimitives \subseteq Emitted

C4_Witness ==
    /\ file = "main"
    /\ Done
    /\ UMDF \in flags
    /\ KERNEL_MODE \in flags
    /\ UMDF \in evaluated

\* C5: for the USB input header with UMDF_VERSION_MAJOR defined, none of
\* ntddk.h, the kernel USB headers or ude/1.0/UdeCx.h is emitted, whatever
\* _KERNEL_MODE and KMDF_VERSION_MAJOR are.
C5_UsbUserModeClean ==
    (file = "usb" /\ UMDF \in flags) =>
        Emitted \cap ({"ntddk.h", "ude/1.0/UdeCx.h"} \cup UsbGroup) = {}

\* C6: selection fails closed in kernel mode (main header,
\* UMDF_VERSION_MAJOR undefined): (i) without KMDF_VERSION_MAJOR, wdf.h and
\* wdfusb.h are excluded; (ii) without an SPB version macro the SPB group is
\* excluded; (iii) with _KERNEL_MODE but no storage-extension macro,
\* ntddstor.h is excluded.
C6_FailClosed ==
    (file = "main" /\ Done /\ UMDF \notin flags) =>
        /\ KMDF \notin flags => ~Has("wdf.h") /\ ~Has("wdfusb.h")
        /\ extraDefs = {} => /\ Emitted \cap SpbGroup = {}
                             /\ KERNEL_MODE \in flags => ~Has("ntddstor.h")

\* C7: with KMDF_VERSION_MAJOR and UMDF_VERSION_MAJOR both defined, or with
\* _KERNEL_MODE defined together with UMDF_VERSION_MAJOR, processing either
\* header emits no declaration and never completes.
C7_InconsistentRejected ==
    (UMDF \in flags /\ (KMDF \in flags \/ KERNEL_MODE \in flags)) =>
        out = <<>> /\ ~Done

----------------------------------------------------------------------------
(* The order of the surface.                                               *)

\* <<a, b>>: group b refers to names of group a.
KernelDeps ==
    ({"ntddk.h"} \X (HidGroup \cup UsbGroup \cup SpbGroup \cup GpioGroup
                        \cup ParallelGroup))
    \cup {<<"usbspec.h", "usb.h">>,
          <<"usb.h", "usbbusif.h">>, <<"usb.h", "usbioctl.h">>,
          <<"usb.h", "usbdlib.h">>,
          <<"usbfnbase.h", "usbfnattach.h">>, <<"usbfnbase.h", "usbfnioctl.h">>,
          <<"wdf.h", "wdfusb.h">>, <<"wdf.h", "ude/1.0/UdeCx.h">>,
          <<"wdf.h", "spb/1.1/spbcx.h">>,
          <<"spb.h", "spb/1.1/spbcx.h">>,
          <<"gpio.h", "gpioclx.h">>}

Deps(fl) ==
    IF UMDF \in fl THEN KernelDeps \cup {<<"windows.h", "wdf.h">>} ELSE KernelDeps

Ordered(d) == Has(d[2]) => Has(d[1]) /\ FirstPos(d[1]) < FirstPos(d[2])

\* C8: for both headers and every flag combination the emitted sequence is
\* topologically ordered: every included group comes strictly after every
\* group it depends on, and no included group depends on an excluded one.
C8_Topological == \A d \in Deps(flags) : Ordered(d)

\* What does hold of the order: the same, outside the USB input header
\* processed with UMDF_VERSION_MAJOR defined.
TopologicalOutsideUsbUserMode ==
    ~(file = "usb" /\ UMDF \in flags) => \A d \in Deps(flags) : Ordered(d)

Independent(a, b) == <<a, b>> \notin KernelDeps /\ <<b, a>> \notin KernelDeps

\* The classes of C9 as stated: kernel/HAL primitives, bus/transport
\* protocols, device-class protocols, driver-framework integration layers.
StatedClass(n) ==
    IF n \in KernelPrimitives THEN 1
    ELSE IF n \in UsbGroup \cup {"spb.h"} \cup GpioGroup \cup ParallelGroup THEN 2
    ELSE IF n \in HidGroup THEN 3
    ELSE 4

\* The classes in the order the main header has them.
SourceClass(n) ==
    IF n \in KernelPrimitives THEN 1
    ELSE IF n \in HidGroup THEN 2
    ELSE IF n \in UsbGroup THEN 3
    ELSE IF n \in {"wdf.h", "wdfusb.h"} THEN 4
    ELSE IF n = "ude/1.0/UdeCx.h" THEN 5
    ELSE IF n \in SpbGroup THEN 6
    ELSE 7

Classified ==
    KernelPrimitives \cup HidGroup \cup UsbGroup \cup SpbGroup \cup GpioGroup
        \cup ParallelGroup \cup {"wdf.h", "wdfusb.h", "ude/1.0/UdeCx.h"}

\* C9 as stated: in the main header's output, two included groups with no
\* dependency between them appear in the order kernel/HAL primitives, then
\* bus/transport groups (USB, SPB, GPIO, serial/parallel), then HID, then
\* framework layers (wdf.h, wdfusb.h, UdeCx, spbcx).
C9_Original ==
    file = "main" =>
        \A a \in Emitted \cap Classified : \A b \in Emitted \cap Classified :
            (FirstPos(a) < FirstPos(b) /\ Independent(a, b))
                => StatedClass(a) <= StatedClass(b)

\* C9 amended: in the main header's output, for every flag combination, the
\* included groups appear in the fixed order kernel/HAL primitives (ntifs.h,
\* ntddk.h), then HID, then USB, then wdf.h and wdfusb.h, then UdeCx, then SPB
\* (spb.h, spbcx), then GPIO and serial/parallel: no group of a later class of
\* this order is first emitted before a group of an earlier class.
C9_Amended ==
    file = "main" =>
        \A a \in Emitted \cap Classified : \A b \in Emitted \cap Classified :
            FirstPos(a) < FirstPos(b) => SourceClass(a) <= SourceClass(b)

C9_Witness ==
    /\ file = "main"
    /\ Done
    /\ Has("hidclass.h") /\ Has("usbspec.h") /\ Has("ude/1.0/UdeCx.h")
    /\ FirstPos("hidclass.h") < FirstPos("usbspec.h")
    /\ FirstPos("wdf.h") < FirstPos("gpio.h")

====
